---- MODULE Spec2Model ----
(***************************************************************************)
(* Model of app.py, a Streamlit dashboard: one script run per user         *)
(* interaction.  A run executes the handler of the button that was         *)
(* clicked (Load Dataset, Analyze Sentiment, or none) and then the render  *)
(* block.  State that survives a run: st.session_state["df"] and the       *)
(* st.cache_data store of get_sentiment.                                   *)
(*                                                                         *)
(* Values of a SUMMARY cell are records [kind, v]:                         *)
(*   kind "nan"   a missing cell (pandas NaN)                              *)
(*   kind "empty" the empty string                                         *)
(*   kind "num"   a number v (a non-string cell)                           *)
(*   kind "str"   a non-empty string; v is the compound score, in          *)
(*                hundredths, that VADER assigns to that string            *)
(***************************************************************************)
EXTENDS Integers, Sequences, FiniteSets, TLC

VARIABLES
    session_df,   \* st.session_state: [loaded, columns, rows, Sentiment]
    cache,        \* st.cache_data store of get_sentiment: text -> label
    calls,        \* number of analyzer.polarity_scores calls made, per text
    button,       \* the button clicked in the last run: "load", "analyze", "none"
    feedback,     \* the st.success / st.error / st.warning the handler showed
    file,         \* what the last Load Dataset run found at the dataset path
    view,         \* what the render block of the last run produced
    relabel,      \* whether the last run began with a Sentiment column in the dataset
    arg,          \* classifier harness: the text passed to get_sentiment
    ret           \* classifier harness: [pc, first, second] results of two calls

vars == <<session_df, cache, calls, button, feedback, file, view, relabel, arg, ret>>

-----------------------------------------------------------------------------
(* Bounds of the model *)

MaxFileRows == 11          \* longest source file, in rows
MaxScore == 100            \* compound scores range over -1.00 .. 1.00

(* Program constants *)

PreviewRows == 10          \* df.head(10)
PosThreshold == 5          \* compound >= 0.05
NegThreshold == -5         \* compound <= -0.05

-----------------------------------------------------------------------------
(* Cell values *)

NaN == [kind |-> "nan", v |-> 0]
EmptyStr == [kind |-> "empty", v |-> 0]
Num(k) == [kind |-> "num", v |-> k]
Str(s) == [kind |-> "str", v |-> s]

Products == {"A", "B", "C"}
AllProducts == "All Products"

\* the texts the classifier harness draws from
AllTexts == {NaN, EmptyStr, Num(0), Num(7)} \cup {Str(s) : s \in (0 - MaxScore)..MaxScore}

Labels == {"Positive", "Neutral", "Negative"}

Min(a, b) == IF a <= b THEN a ELSE b

Restrict(f, S) == [c \in S |-> f[c]]

Row(p, t) == [PRODUCT |-> p, SUMMARY |-> t]

\* the rows of tpl repeated cyclically up to n rows
Cycle(tpl, n) == [i \in 1..n |-> tpl[((i - 1) % Len(tpl)) + 1]]

Templates ==
    { << Row("A", Str(5)), Row("B", Str(-5)), Row("A", Str(4)), Row("A", NaN),
         Row("B", Num(7)), Row("B", EmptyStr) >>,
      << Row("A", Str(5)), Row("A", Str(4)), Row("B", Str(-5)), Row("A", Str(5)),
         Row("A", Str(4)), Row("A", Str(5)) >> }

ColumnSets == { {"PRODUCT", "SUMMARY"}, {"PRODUCT"}, {"SUMMARY"} }

\* what can be found at the dataset path: nothing, a file pandas cannot
\* parse, or a CSV with a header and rows
Missing == [state |-> "missing", columns |-> {}, rows |-> << >>]
Malformed == [state |-> "malformed", columns |-> {}, rows |-> << >>]
Csv(cols, rows) ==
    [state |-> "csv", columns |-> cols,
     rows |-> [i \in 1..Len(rows) |-> Restrict(rows[i], cols)]]

Files ==
    {Missing, Malformed} \cup
    { Csv(cols, Cycle(tpl, n)) : cols \in ColumnSets, tpl \in Templates, n \in 0..MaxFileRows }

-----------------------------------------------------------------------------
(* analyzer.polarity_scores(text)["compound"]: the score of a string      *)
(* (0.0 for the empty string, which has no words), an exception            *)
(* (TypeError) for anything that is not a string                           *)
polarity_scores(text) ==
    IF text.kind = "str"
    THEN [raised |-> FALSE, compound |-> text.v]
    ELSE IF text.kind = "empty"
    THEN [raised |-> FALSE, compound |-> 0]
    ELSE [raised |-> TRUE, compound |-> 0]

\* `not text`: the empty string and the number 0 are falsy
falsy(text) == text.kind = "empty" \/ (text.kind = "num" /\ text.v = 0)

\* pd.isna(text)
isna(text) == text.kind = "nan"

\* faulty variant of get_sentiment_body: strict comparisons with the thresholds
get_sentiment_body_strict(text) ==
    IF falsy(text) \/ isna(text)
    THEN [label |-> "Neutral", scored |-> FALSE, error |-> FALSE, raised |-> FALSE]
    ELSE LET scores == polarity_scores(text)
         IN  IF scores.raised
             THEN [label |-> "Neutral", scored |-> TRUE, error |-> TRUE, raised |-> FALSE]
             ELSE IF scores.compound > PosThreshold
                  THEN [label |-> "Positive", scored |-> TRUE, error |-> FALSE, raised |-> FALSE]
                  ELSE IF scores.compound < NegThreshold
                       THEN [label |-> "Negative", scored |-> TRUE, error |-> FALSE, raised |-> FALSE]
                       ELSE [label |-> "Neutral", scored |-> TRUE, error |-> FALSE, raised |-> FALSE]

\* faulty variant of get_sentiment_body: no try/except around the analyzer call
get_sentiment_body_unguarded(text) ==
    IF falsy(text) \/ isna(text)
    THEN [label |-> "Neutral", scored |-> FALSE, error |-> FALSE, raised |-> FALSE]
    ELSE LET scores == polarity_scores(text)
         IN  IF scores.raised
             THEN [label |-> "", scored |-> TRUE, error |-> FALSE, raised |-> TRUE]
             ELSE IF scores.compound >= PosThreshold
                  THEN [label |-> "Positive", scored |-> TRUE, error |-> FALSE, raised |-> FALSE]
                  ELSE IF scores.compound <= NegThreshold
                       THEN [label |-> "Negative", scored |-> TRUE, error |-> FALSE, raised |-> FALSE]
                       ELSE [label |-> "Neutral", scored |-> TRUE, error |-> FALSE, raised |-> FALSE]

(* The body of get_sentiment: the label, whether the analyzer was called,  *)
(* whether st.error was shown, whether an exception leaves the function.   *)
get_sentiment_body(text) ==
    IF falsy(text) \/ isna(text)
    THEN [label |-> "Neutral", scored |-> FALSE, error |-> FALSE, raised |-> FALSE]
    ELSE LET scores == polarity_scores(text)
         IN  IF scores.raised
             THEN \* except Exception: st.error(...); return "Neutral"
                  [label |-> "Neutral", scored |-> TRUE, error |-> TRUE, raised |-> FALSE]
             ELSE IF scores.compound >= PosThreshold
                  THEN [label |-> "Positive", scored |-> TRUE, error |-> FALSE, raised |-> FALSE]
                  ELSE IF scores.compound <= NegThreshold
                       THEN [label |-> "Negative", scored |-> TRUE, error |-> FALSE, raised |-> FALSE]
                       ELSE [label |-> "Neutral", scored |-> TRUE, error |-> FALSE, raised |-> FALSE]

\* the analyzer calls counted in k for text t, and k with one more of them
Count(k, t) == IF t \in DOMAIN k THEN k[t] ELSE 0
Tally(k, t) == [u \in DOMAIN k \cup {t} |-> IF u = t THEN Count(k, t) + 1 ELSE k[u]]

\* faulty variant of cache_key: the key ignores the value of the text
cache_key_coarse(text) == [kind |-> text.kind, v |-> 0]

\* the key st.cache_data stores a call under: the argument value
cache_key(text) == text

\* faulty variant of get_sentiment: a cache hit returns the default label
get_sentiment_stale(text, c, k) ==
    IF cache_key(text) \in DOMAIN c
    THEN [label |-> "Neutral", raised |-> FALSE, cache |-> c, calls |-> k]
    ELSE LET r == get_sentiment_body(text)
             k2 == IF r.scored THEN Tally(k, text) ELSE k
         IN  IF r.raised
             THEN [label |-> r.label, raised |-> TRUE, cache |-> c, calls |-> k2]
             ELSE [label |-> r.label, raised |-> FALSE,
                   cache |-> [t \in DOMAIN c \cup {cache_key(text)} |->
                                 IF t = cache_key(text) THEN r.label ELSE c[t]],
                   calls |-> k2]

(* @st.cache_data get_sentiment: a stored result is returned without       *)
(* running the body; otherwise the body runs and its result is stored.     *)
(* c is the store and k the per-text count of analyzer calls.              *)
get_sentiment(text, c, k) ==
    IF cache_key(text) \in DOMAIN c
    THEN [label |-> c[cache_key(text)], raised |-> FALSE, cache |-> c, calls |-> k]
    ELSE LET r == get_sentiment_body(text)
             k2 == IF r.scored THEN Tally(k, text) ELSE k
         IN  IF r.raised
             THEN [label |-> r.label, raised |-> TRUE, cache |-> c, calls |-> k2]
             ELSE [label |-> r.label, raised |-> FALSE,
                   cache |-> [t \in DOMAIN c \cup {cache_key(text)} |->
                                 IF t = cache_key(text) THEN r.label ELSE c[t]],
                   calls |-> k2]

\* faulty variant of apply: missing texts are dropped and get no label
RECURSIVE apply_dropna(_, _, _, _)
apply_dropna(texts, c, k, done) ==
    IF texts = << >>
    THEN [labels |-> done, raised |-> FALSE, cache |-> c, calls |-> k]
    ELSE IF isna(Head(texts))
    THEN apply_dropna(Tail(texts), c, k, done)
    ELSE LET r == get_sentiment(Head(texts), c, k)
         IN  IF r.raised
             THEN [labels |-> done, raised |-> TRUE, cache |-> r.cache, calls |-> r.calls]
             ELSE apply_dropna(Tail(texts), r.cache, r.calls, Append(done, r.label))

(* st.session_state["df"]["SUMMARY"].apply(get_sentiment): the rows in     *)
(* order, threading the cache; an exception stops the batch.               *)
RECURSIVE apply(_, _, _, _)
apply(texts, c, k, done) ==
    IF Len(done) = Len(texts)
    THEN [labels |-> done, raised |-> FALSE, cache |-> c, calls |-> k]
    ELSE LET r == get_sentiment(texts[Len(done) + 1], c, k)
         IN  IF r.raised
             THEN [labels |-> done, raised |-> TRUE, cache |-> r.cache, calls |-> r.calls]
             ELSE apply(texts, r.cache, r.calls, Append(done, r.label))

-----------------------------------------------------------------------------
(* Session state *)

NoDf == [loaded |-> FALSE, columns |-> {}, rows |-> << >>, Sentiment |-> << >>]

\* faulty variant of head: no truncation
head_all(rows, n) == rows

\* df.head(n)
head(rows, n) == SubSeq(rows, 1, Min(n, Len(rows)))

-----------------------------------------------------------------------------
(* Render block *)

\* list(df["PRODUCT"].unique()): the distinct values in order of first appearance
RECURSIVE unique(_, _)
unique(rows, seen) ==
    IF rows = << >> THEN seen
    ELSE LET p == Head(rows).PRODUCT
         IN  unique(Tail(rows),
                    IF \E i \in DOMAIN seen : seen[i] = p THEN seen ELSE Append(seen, p))

\* the options of st.selectbox("Choose a product", ...)
options(df) == << AllProducts >> \o unique(df.rows, << >>)

(* filtered_df: the rows of df whose PRODUCT is the selection, or all of   *)
(* them for "All Products"; idx is the positions kept, in order.           *)
filtered_df(df, selection) ==
    LET keep(i) == selection = AllProducts \/ df.rows[i].PRODUCT = selection
        idx == SelectSeq([i \in 1..Len(df.rows) |-> i], keep)
    IN  [rows |-> [j \in 1..Len(idx) |-> df.rows[idx[j]]],
         Sentiment |-> IF "Sentiment" \in df.columns
                       THEN [j \in 1..Len(idx) |-> df.Sentiment[idx[j]]]
                       ELSE << >>]

\* the orderings of the elements of a finite set
Orderings(S) ==
    {s \in [1..Cardinality(S) -> S] : \A i, j \in DOMAIN s : i # j => s[i] # s[j]}

(* filtered_df["Sentiment"].value_counts().reset_index(): one entry per    *)
(* label present, by descending count (pandas decides the order of ties).  *)
value_counts(labels) ==
    LET present == {labels[i] : i \in DOMAIN labels}
        n(l) == Cardinality({i \in DOMAIN labels : labels[i] = l})
        byCount == CHOOSE s \in Orderings(present) :
                       \A i, j \in DOMAIN s : i < j => n(s[i]) >= n(s[j])
    IN  [i \in DOMAIN byCount |-> [Sentiment |-> byCount[i], Count |-> n(byCount[i])]]

sentiment_order == << "Negative", "Neutral", "Positive" >>

existing_sentiments(counts) == {counts[i].Sentiment : i \in DOMAIN counts}

filtered_order(counts) ==
    LET present(s) == s \in existing_sentiments(counts)
    IN  SelectSeq(sentiment_order, present)

\* faulty variant of sort_values: the counts stay in value_counts order
sort_values_skipped(counts, order) == counts

(* pd.Categorical(..., categories=order, ordered=True) followed by         *)
(* sort_values('Sentiment'): the entries by position of their label in     *)
(* order.                                                                  *)
sort_values(counts, order) ==
    LET code(l) == CHOOSE i \in DOMAIN order : order[i] = l
        entries == {counts[i] : i \in DOMAIN counts}
    IN  CHOOSE s \in Orderings(entries) :
            \A i, j \in DOMAIN s : i < j => code(s[i].Sentiment) <= code(s[j].Sentiment)

\* the frame handed to px.bar
sentiment_counts(filtered) ==
    LET counts == value_counts(filtered.Sentiment)
    IN  sort_values(counts, filtered_order(counts))

NoTable == [rows |-> << >>, Sentiment |-> << >>]

(* The render block (lines 68-115) given the session state and the view    *)
(* of the previous run.  The selectbox keeps its value from the previous   *)
(* run when it was rendered there with the same options, and shows its     *)
(* first option otherwise; pick, when given, is the option the user chose. *)
Render(df, before, pick) ==
    IF ~df.loaded
    THEN [state |-> "skipped", options |-> << >>, product |-> AllProducts,
          table |-> NoTable, chart |-> << >>]
    ELSE IF "PRODUCT" \notin df.columns
    THEN \* KeyError at line 71, not caught
         [state |-> "KeyError", options |-> << >>, product |-> AllProducts,
          table |-> NoTable, chart |-> << >>]
    ELSE LET opts == options(df)
             sel == IF pick # "" THEN pick
                    ELSE IF before.options = opts THEN before.product ELSE AllProducts
             filtered == filtered_df(df, sel)
         IN  IF "Sentiment" \in df.columns
             THEN [state |-> "chart", options |-> opts, product |-> sel,
                   table |-> filtered, chart |-> sentiment_counts(filtered)]
             ELSE [state |-> "table", options |-> opts, product |-> sel,
                   table |-> filtered, chart |-> << >>]

-----------------------------------------------------------------------------
(* Script runs *)

Init ==
    /\ session_df = NoDf
    /\ cache = << >>
    /\ calls = << >>
    /\ button = "none"
    /\ feedback = "none"
    /\ file = Missing
    /\ relabel = FALSE
    /\ view = Render(NoDf, [options |-> << >>, product |-> AllProducts], "")
    /\ arg = NaN
    /\ ret = [pc |-> "idle", first |-> "", second |-> ""]

\* faulty variant of LoadDataset: a missing file discards the loaded dataset
LoadDataset_clear(f) ==
    /\ button' = "load"
    /\ file' = f
    /\ relabel' = ("Sentiment" \in session_df.columns)
    /\ IF f.state = "missing"
       THEN /\ feedback' = "not_found"
            /\ session_df' = NoDf
       ELSE IF f.state = "malformed"
       THEN /\ feedback' = "load_error"
            /\ session_df' = session_df
       ELSE /\ feedback' = "loaded"
            /\ session_df' = [loaded |-> TRUE, columns |-> f.columns,
                              rows |-> head(f.rows, PreviewRows), Sentiment |-> << >>]
    /\ view' = Render(session_df', view, "")
    /\ UNCHANGED <<cache, calls, arg, ret>>

(* "Load Dataset" clicked (lines 43-52), f being what is at the path.      *)
LoadDataset(f) ==
    /\ button' = "load"
    /\ file' = f
    /\ relabel' = ("Sentiment" \in session_df.columns)
    /\ IF f.state = "missing"
       THEN \* except FileNotFoundError
            /\ feedback' = "not_found"
            /\ session_df' = session_df
       ELSE IF f.state = "malformed"
       THEN \* except Exception
            /\ feedback' = "load_error"
            /\ session_df' = session_df
       ELSE /\ feedback' = "loaded"
            /\ session_df' = [loaded |-> TRUE, columns |-> f.columns,
                              rows |-> head(f.rows, PreviewRows), Sentiment |-> << >>]
    /\ view' = Render(session_df', view, "")
    /\ UNCHANGED <<cache, calls, arg, ret>>

\* faulty variant of AnalyzeSentiment: no check that a dataset is loaded
AnalyzeSentiment_unguarded ==
    /\ button' = "analyze"
    /\ relabel' = ("Sentiment" \in session_df.columns)
    /\ IF "SUMMARY" \notin session_df.columns
       THEN /\ feedback' = "analysis_error"
            /\ UNCHANGED <<session_df, cache, calls>>
       ELSE LET texts == [i \in DOMAIN session_df.rows |-> session_df.rows[i].SUMMARY]
                r == apply(texts, cache, calls, << >>)
            IN  /\ cache' = r.cache
                /\ calls' = r.calls
                /\ IF r.raised
                   THEN /\ feedback' = "analysis_error"
                        /\ session_df' = session_df
                   ELSE /\ feedback' = "analyzed"
                        /\ session_df' = [session_df EXCEPT
                                             !.columns = @ \cup {"Sentiment"},
                                             !.Sentiment = r.labels]
    /\ view' = Render(session_df', view, "")
    /\ UNCHANGED <<file, arg, ret>>

(* "Analyze Sentiment" clicked (lines 55-65).                              *)
AnalyzeSentiment ==
    /\ button' = "analyze"
    /\ relabel' = ("Sentiment" \in session_df.columns)
    /\ IF ~session_df.loaded
       THEN /\ feedback' = "warning"
            /\ UNCHANGED <<session_df, cache, calls>>
       ELSE IF "SUMMARY" \notin session_df.columns
       THEN \* KeyError at line 60, caught at line 62
            /\ feedback' = "analysis_error"
            /\ UNCHANGED <<session_df, cache, calls>>
       ELSE LET texts == [i \in DOMAIN session_df.rows |-> session_df.rows[i].SUMMARY]
                r == apply(texts, cache, calls, << >>)
            IN  /\ cache' = r.cache
                /\ calls' = r.calls
                /\ IF r.raised
                   THEN /\ feedback' = "analysis_error"
                        /\ session_df' = session_df
                   ELSE /\ feedback' = "analyzed"
                        /\ session_df' = [session_df EXCEPT
                                             !.columns = @ \cup {"Sentiment"},
                                             !.Sentiment = r.labels]
    /\ view' = Render(session_df', view, "")
    /\ UNCHANGED <<file, arg, ret>>

(* The user picks another product in the selectbox: a run with no button.  *)
SelectProduct(p) ==
    /\ \E i \in DOMAIN view.options : view.options[i] = p
    /\ button' = "none"
    /\ feedback' = "none"
    /\ relabel' = ("Sentiment" \in session_df.columns)
    /\ view' = Render(session_df, view, p)
    /\ UNCHANGED <<session_df, cache, calls, file, arg, ret>>

Next ==
    \/ \E f \in Files : LoadDataset(f)
    \/ AnalyzeSentiment
    \/ \E p \in Products \cup {AllProducts} : SelectProduct(p)

Spec == Init /\ [][Next]_vars

-----------------------------------------------------------------------------
(* The classifier on its own: get_sentiment called twice on one text, in a *)
(* fresh process.                                                          *)

InitClassify ==
    /\ session_df = NoDf
    /\ cache = << >>
    /\ calls = << >>
    /\ button = "none"
    /\ feedback = "none"
    /\ file = Missing
    /\ relabel = FALSE
    /\ view = Render(NoDf, [options |-> << >>, product |-> AllProducts], "")
    /\ arg \in AllTexts
    /\ ret = [pc |-> "start", first |-> "", second |-> ""]

Classify ==
    /\ ret.pc = "start"
    /\ LET r == get_sentiment(arg, cache, calls)
       IN  /\ ret' = [pc |-> IF r.raised THEN "raised" ELSE "once",
                      first |-> IF r.raised THEN "" ELSE r.label, second |-> ""]
           /\ cache' = r.cache
           /\ calls' = r.calls
    /\ UNCHANGED <<session_df, button, feedback, file, view, relabel, arg>>

ClassifyAgain ==
    /\ ret.pc = "once"
    /\ LET r == get_sentiment(arg, cache, calls)
       IN  /\ ret' = [ret EXCEPT !.pc = IF r.raised THEN "raised" ELSE "twice",
                                 !.second = IF r.raised THEN "" ELSE r.label]
           /\ cache' = r.cache
           /\ calls' = r.calls
    /\ UNCHANGED <<session_df, button, feedback, file, view, relabel, arg>>

NextClassify ==
    \/ Classify
    \/ ClassifyAgain

SpecClassify == InitClassify /\ [][NextClassify]_vars

-----------------------------------------------------------------------------
(* Properties *)

\* the label the thresholding policy gives a compound score of s hundredths
Policy(s) == IF s >= 5 THEN "Positive" ELSE IF s <= -5 THEN "Negative" ELSE "Neutral"

\* the label a row's text determines: the policy on its score when it is a
\* string, Neutral when it is missing or cannot be scored
Expected(text) == IF text.kind = "str" THEN Policy(text.v) ELSE "Neutral"

(* C1: get_sentiment returns Neutral for a null text without calling the   *)
(* analyzer, and for a string with compound score s returns Positive when  *)
(* s >= 0.05, Negative when s <= -0.05 and Neutral otherwise.              *)
C1_Thresholds ==
    ret.pc \in {"once", "twice"} =>
        /\ isna(arg) => ret.first = "Neutral" /\ calls = << >>
        /\ arg.kind = "str" => ret.first = Policy(arg.v)
        /\ arg.kind = "empty" => ret.first = Policy(0)
        /\ arg = Str(5) => ret.first = "Positive"
        /\ arg = Str(-5) => ret.first = "Negative"
        /\ arg = Str(0) => ret.first = "Neutral"

C1_Witness ==
    /\ ret.pc = "once"
    /\ arg = Str(5)
    /\ ret.first = "Positive"
    /\ Count(calls, arg) = 1

-----------------------------------------------------------------------------
(* C2 *)

Rank(l) == IF l = "Negative" THEN 1 ELSE IF l = "Neutral" THEN 2 ELSE 3

\* the positions of the rows of the dataset that a selection keeps
Matching(selection) ==
    {i \in DOMAIN session_df.rows :
        selection = AllProducts \/ session_df.rows[i].PRODUCT = selection}

RECURSIVE SumCounts(_)
SumCounts(agg) == IF agg = << >> THEN 0 ELSE Head(agg).Count + SumCounts(Tail(agg))

\* agg is the canonical aggregate of the labels at the positions in rows
AggregateOf(agg, rows) ==
    LET n(l) == Cardinality({i \in rows : session_df.Sentiment[i] = l})
    IN  /\ \A i \in DOMAIN agg :
              /\ agg[i].Sentiment \in Labels
              /\ agg[i].Count >= 1
              /\ agg[i].Count = n(agg[i].Sentiment)
        /\ \A i, j \in DOMAIN agg : i < j => Rank(agg[i].Sentiment) < Rank(agg[j].Sentiment)
        /\ {agg[i].Sentiment : i \in DOMAIN agg} = {l \in Labels : n(l) > 0}
        /\ SumCounts(agg) = Cardinality(rows)
        /\ rows = {} => agg = << >>

(* C2: for every labelled dataset and every selection, present in the      *)
(* dataset or not, the aggregate lists the labels that occur in the        *)
(* filtered rows in the order Negative, Neutral, Positive, every count is  *)
(* at least 1, and the counts add up to the number of filtered rows; the   *)
(* chart of the last run is that aggregate for the selected product.       *)
C2_Aggregate ==
    /\ ("Sentiment" \in session_df.columns /\ "PRODUCT" \in session_df.columns) =>
           \A p \in Products \cup {AllProducts} :
               LET filtered == filtered_df(session_df, p)
               IN  /\ Len(filtered.rows) = Cardinality(Matching(p))
                   /\ AggregateOf(sentiment_counts(filtered), Matching(p))
    /\ view.state = "chart" => AggregateOf(view.chart, Matching(view.product))

C2_Witness ==
    /\ view.state = "chart"
    /\ view.product = "A"
    /\ Len(view.chart) = 2
    /\ view.chart[1] = [Sentiment |-> "Neutral", Count |-> 2]
    /\ view.chart[2] = [Sentiment |-> "Positive", Count |-> 3]
    /\ Cardinality(Matching("B")) > 0
    /\ Cardinality(Matching("C")) = 0

-----------------------------------------------------------------------------
(* C3 *)

Labelled(df) ==
    /\ "Sentiment" \in df.columns
    /\ Len(df.Sentiment) = Len(df.rows)
    /\ \A i \in DOMAIN df.Sentiment : df.Sentiment[i] \in Labels

Unlabelled(df) ==
    /\ "Sentiment" \notin df.columns
    /\ df.Sentiment = << >>

Loaded == button' = "load" /\ feedback' = "loaded"
Analyzed == button' = "analyze" /\ feedback' = "analyzed"

-----------------------------------------------------------------------------
(* C4 *)

(* C4: a Load Dataset run that finds no file at the path shows the         *)
(* not-found error and leaves the session state as it was.                 *)
C4_NotFound ==
    [][(button' = "load" /\ file'.state = "missing") =>
          /\ feedback' = "not_found"
          /\ session_df' = session_df
          /\ cache' = cache]_vars

C4_Witness ==
    /\ button = "load"
    /\ file.state = "missing"
    /\ feedback = "not_found"
    /\ Labelled(session_df)
    /\ Len(session_df.rows) > 1

-----------------------------------------------------------------------------
(* C5 *)

BadFile(f) ==
    \/ f.state = "malformed"
    \/ f.state = "csv" /\ ~({"PRODUCT", "SUMMARY"} \subseteq f.columns)

(* C5: a Load Dataset run on a file that is malformed or lacks the PRODUCT *)
(* or SUMMARY column shows the load error and leaves the dataset as it     *)
(* was, and no run ends in an unhandled exception.                         *)
C5_LoadError ==
    /\ [][(button' = "load" /\ BadFile(file')) =>
             /\ feedback' = "load_error"
             /\ session_df' = session_df]_vars
    /\ [](view.state # "KeyError")

-----------------------------------------------------------------------------
(* C6 *)

\* a text the analyzer is called on and raises on
Unscorable(text) == text.kind = "num" /\ text.v # 0

(* C6: when Analyze Sentiment runs over a dataset in which the analyzer    *)
(* raises on the text of some row, the run completes, that row is          *)
(* labelled Neutral and every other row has the label of its own text.     *)
C6_ScoringError ==
    ( /\ button = "analyze"
      /\ session_df.loaded
      /\ "SUMMARY" \in session_df.columns
      /\ \E i \in DOMAIN session_df.rows : Unscorable(session_df.rows[i].SUMMARY) ) =>
        /\ feedback = "analyzed"
        /\ Labelled(session_df)
        /\ \A i \in DOMAIN session_df.rows :
               /\ Unscorable(session_df.rows[i].SUMMARY) => session_df.Sentiment[i] = "Neutral"
               /\ session_df.Sentiment[i] = Expected(session_df.rows[i].SUMMARY)

C6_Witness ==
    /\ button = "analyze"
    /\ feedback = "analyzed"
    /\ \E i, j, k \in DOMAIN session_df.rows :
           /\ i < j /\ j < k
           /\ session_df.Sentiment[i] = "Negative"
           /\ Unscorable(session_df.rows[j].SUMMARY)
           /\ session_df.Sentiment[j] = "Neutral"
           /\ session_df.Sentiment[k] = "Positive"

-----------------------------------------------------------------------------
(* C7 *)

(* C7: an Analyze Sentiment run with no dataset loaded shows the warning   *)
(* and changes nothing: no dataset, no Sentiment column, no analyzer call, *)
(* no table and no chart.                                                  *)
C7_NoDataset ==
    [][(button' = "analyze" /\ ~session_df.loaded) =>
          /\ feedback' = "warning"
          /\ session_df' = NoDf
          /\ calls' = calls
          /\ cache' = cache
          /\ view'.state = "skipped"
          /\ view'.table = NoTable
          /\ view'.chart = << >>]_vars

C7_Witness ==
    /\ button = "analyze"
    /\ feedback = "warning"
    /\ session_df = NoDf
    /\ file.state = "malformed"

-----------------------------------------------------------------------------
(* C8 *)

\* df without its Sentiment column
Source(df) == [loaded |-> df.loaded, columns |-> df.columns \ {"Sentiment"}, rows |-> df.rows]

(* C8: a successful Load Dataset replaces the dataset by the first         *)
(* min(10, n) rows of the file, in file order; the dataset never has more  *)
(* than 10 rows; Analyze Sentiment changes nothing but the Sentiment       *)
(* column, and no other run changes the dataset.                           *)
C8_Preview ==
    /\ [](Len(session_df.rows) <= 10)
    /\ [][Loaded =>
             /\ file'.state = "csv"
             /\ session_df'.loaded
             /\ session_df'.columns = file'.columns
             /\ Len(session_df'.rows) = Min(10, Len(file'.rows))
             /\ \A i \in DOMAIN session_df'.rows : session_df'.rows[i] = file'.rows[i]
             /\ session_df'.Sentiment = << >>]_vars
    /\ [][button' = "analyze" => Source(session_df') = Source(session_df)]_vars
    /\ [][(button' = "none" \/ (button' = "load" /\ ~Loaded)) => session_df' = session_df]_vars

C8_Witness ==
    /\ button = "load"
    /\ feedback = "loaded"
    /\ relabel
    /\ Len(file.rows) > 10
    /\ Len(session_df.rows) = 10
    /\ file.rows[11] # file.rows[1]

-----------------------------------------------------------------------------
(* C9 *)

(* C9: rows with the same text have the same label, and an Analyze         *)
(* Sentiment run over a dataset that is already labelled leaves every row  *)
(* with the label it had.                                                  *)
C9_Idempotent ==
    /\ [](Labelled(session_df) /\ "SUMMARY" \in session_df.columns =>
            \A i, j \in DOMAIN session_df.rows :
                session_df.rows[i].SUMMARY = session_df.rows[j].SUMMARY =>
                    session_df.Sentiment[i] = session_df.Sentiment[j])
    /\ [][(Analyzed /\ Labelled(session_df)) =>
             session_df'.Sentiment = session_df.Sentiment]_vars

C9_Witness ==
    /\ button = "analyze"
    /\ feedback = "analyzed"
    /\ relabel
    /\ \E i, j \in DOMAIN session_df.rows :
           /\ i # j
           /\ session_df.rows[i].SUMMARY = session_df.rows[j].SUMMARY
           /\ session_df.Sentiment[i] = "Positive"

-----------------------------------------------------------------------------
(* C10 *)

(* C10: no text is scored by the analyzer more than once, every stored     *)
(* result is the label the uncached function computes for its text, and    *)
(* the labels in the dataset are those the uncached function gives.        *)
C10_Cache ==
    /\ \A t \in DOMAIN calls : calls[t] <= 1
    /\ \A t \in DOMAIN cache : cache[t] = Expected(t)
    /\ (Labelled(session_df) /\ "SUMMARY" \in session_df.columns) =>
           \A i \in DOMAIN session_df.rows :
               session_df.Sentiment[i] = Expected(session_df.rows[i].SUMMARY)

C10_Witness ==
    /\ button = "analyze"
    /\ feedback = "analyzed"
    /\ relabel
    /\ Len(session_df.rows) = PreviewRows
    /\ \E t \in DOMAIN calls : calls[t] = 1 /\ Expected(t) = "Negative"
    /\ \E i \in DOMAIN session_df.rows : session_df.Sentiment[i] = "Negative"

====
